---- MODULE Spec2Model ----
(***************************************************************************)
(* dev/release.py: the release script of graphframes.  One invocation of   *)
(* main is a straight-line sequence of prompts and external commands (git, *)
(* ./build/sbt, ./dev/build-docs.sh) over a git repository that outlives   *)
(* the invocation.  The model keeps the repository (branches, tags, HEAD,  *)
(* commits, what was pushed), the command line, main's locals, the         *)
(* position in main, the commands run and the prompts shown.               *)
(***************************************************************************)
EXTENDS Integers, Sequences, FiniteSets, TLC

\* ---------------------------------------------------------------- bounds
\* invocations of the script on the same repository
MaxRuns == 2
\* clock ticks that may pass between two invocations
MaxElapsed == 2
\* entries of --spark-version (a prefix of the default list)
MaxSparkVersions == 2

\* clock ticks per second: strftime("%Y-%m-%dT%H-%M-%S") drops what is finer
TicksPerSecond == 2

\* ------------------------------------------------------ module constants
DATABRICKS_REMOTE == "git@github.com:graphframes/graphframes.git"

PUBLISH_MODES ==
  [m \in {"local", "m2", "spark-package-publish"} |->
     CASE m = "local" -> "publishLocal"
       [] m = "m2" -> "publishM2"
       [] m = "spark-package-publish" -> "spDist"]

PUBLISH_DOCS_DEFAULT == TRUE

DefaultSparkVersions == <<"3.0.3", "3.1.3", "3.2.3", "3.3.2">>

\* ------------------------------------------------------ strings
\* A string whose characters matter (next-version) is a sequence of
\* one-character strings; Str gives the string it spells.
RECURSIVE Str(_)
Str(s) == IF s = <<>> THEN "" ELSE Head(s) \o Str(Tail(s))

\* str.endswith
EndsWith(s, suffix) ==
  /\ Len(s) >= Len(suffix)
  /\ SubSeq(s, Len(s) - Len(suffix) + 1, Len(s)) = suffix

SNAPSHOT == <<"S", "N", "A", "P", "S", "H", "O", "T">>
DashSNAPSHOT == <<"-">> \o SNAPSHOT

\* lines 53-54: if not next_version.endswith("SNAPSHOT"): next_version += "-SNAPSHOT"
NormalizeNextVersion(v) ==
  IF ~EndsWith(v, SNAPSHOT) THEN v \o DashSNAPSHOT ELSE v

\* a format that stops at the day ("%Y-%m-%d")
Strftime_day(t) == "T" \o ToString(t \div (TicksPerSecond * 86400))

\* datetime.now().strftime("%Y-%m-%dT%H-%M-%S"): the clock to the second
Strftime(t) == "T" \o ToString(t \div TicksPerSecond)

\* WORKING_BRANCH % (release_version, time)
WORKING_BRANCH(rel, t) == "WORKING_BRANCH_RELEASE_" \o rel \o "_@" \o t
\* WORKING_DOCS_BRANCH % (release_version, time)
WORKING_DOCS_BRANCH(rel, t) == "zWORKING_BRANCH_DOCS_" \o rel \o "_@" \o t
\* RELEASE_TAG % release_version
RELEASE_TAG(rel) == "v" \o rel

\* verify that takes every prompt as accepted
verify_accepts(interactive, answer) == TRUE

\* verify that asks (takes the answer) even when not interactive
verify_asks(interactive, answer) == answer

\* verify(prompt, interactive): answer is what click.confirm returns
verify(interactive, answer) == IF ~interactive THEN TRUE ELSE answer

\* ------------------------------------------------------ input domains
ReleaseVersions == {"1.2.3"}
NextVersions ==
  { <<"1", ".", "3">>,
    <<"1", ".", "3">> \o DashSNAPSHOT,
    <<"1", ".", "3">> \o SNAPSHOT }
PublishTargets == {"local", "m2", "spark-package-publish", "maven-central"}
SparkVersionLists ==
  { SubSeq(DefaultSparkVersions, 1, n) : n \in 1..MaxSparkVersions }
\* exit statuses of a failing external command
FailStatuses == {1, 2}
\* output of git diff --stat: empty, or a summary of the changed files
DiffOutputs == {"", " README.md | 2 +-"}

VARIABLES
  args,             \* the command line: main's parameters as click passes them
  clock,            \* the wall clock, in ticks
  runs,             \* invocations started so far
  derived,          \* the branch names each invocation derived (lines 77-78)
  pc,               \* position in main
  exit_code,        \* -1 while running, else the process's exit status
  returncode,       \* status of the external command that failed, 0 if none
  log,              \* argv of every external command run by this invocation
  prompts,          \* <<prompt, answer>> of every click.confirm shown
  interactive, time, next_version, current_branch, working_branch,
  gh_pages_branch, release_tag, version_index, uncommitted_changes,
  existing_tags,    \* main's locals (version_index: the loop's position)
  branches,         \* local branch name -> commit
  tags,             \* tag name -> commit
  head,             \* [ref, commit]: ref is a branch name, or "HEAD" if detached
  parents,          \* commit -> set of parent commits (commits are 1..Len)
  remote,           \* refs pushed to the remote by the script
  start_repo        \* branches, tags, head and remote when the invocation started

locals == <<interactive, time, next_version, current_branch, working_branch,
            gh_pages_branch, release_tag, version_index, uncommitted_changes,
            existing_tags>>
repo == <<branches, tags, head, parents, remote>>
proc == <<pc, exit_code, returncode, log, prompts>>
env == <<args, clock, runs, derived, start_repo>>
vars == <<env, proc, locals, repo>>

\* ------------------------------------------------------ repository
HeadCommit == IF head.ref = "HEAD" THEN head.commit ELSE branches[head.ref]
OnBranch(b) == [ref |-> b, commit |-> 0]
Detached(c) == [ref |-> "HEAD", commit |-> c]

RECURSIVE Ancestors(_)
\* the commits reachable from c, c included
Ancestors(c) == {c} \cup UNION { Ancestors(p) : p \in parents[c] }

Snapshot == [branches |-> branches, tags |-> tags, head |-> head, remote |-> remote]

Args ==
  [release_version : ReleaseVersions,
   next_version : NextVersions,
   publish_to : PublishTargets,
   no_prompt : BOOLEAN,
   git_remote : {DATABRICKS_REMOTE},
   publish_docs : BOOLEAN,
   spark_version : SparkVersionLists]

\* the local branches before the first invocation
InitialBranches == {"master", "dev"}

\* main's locals before their assignment
NoLocals ==
  /\ interactive = FALSE /\ time = "" /\ next_version = <<>>
  /\ current_branch = "" /\ working_branch = "" /\ gh_pages_branch = ""
  /\ release_tag = "" /\ version_index = 0
  /\ uncommitted_changes = "" /\ existing_tags = {}

\* The repository before the first invocation: master and a feature branch,
\* an older release tag, and possibly the tag of the release being made;
\* HEAD on either branch or detached.
Init ==
  /\ args \in Args
  /\ clock = 0
  /\ runs = 1
  /\ derived = <<>>
  /\ pc = "main"
  /\ exit_code = -1
  /\ returncode = 0
  /\ log = <<>>
  /\ prompts = <<>>
  /\ NoLocals
  /\ parents = << {}, {1} >>
  /\ branches = [b \in InitialBranches |-> IF b = "master" THEN 1 ELSE 2]
  /\ tags \in { [t \in {"v1.2.2"} |-> 1],
                [t \in {"v1.2.2", "v1.2.3"} |-> 1] }
  /\ head \in {OnBranch("master"), OnBranch("dev"), Detached(1)}
  /\ remote = {}
  /\ start_repo = Snapshot

\* ------------------------------------------------------ process steps
\* check_call / check_output start the command: its argv joins the log
Run(argv) == log' = Append(log, argv)

\* exit status of the interpreter when an exception leaves main uncaught
UncaughtExceptionStatus == 1

\* sys.exit(code)
SysExit(code) == pc' = "exit" /\ exit_code' = code /\ UNCHANGED returncode

\* an exit that passes the command's status on (sys.exit(e.returncode))
CalledProcessError_status(s) ==
  /\ pc' = "exit"
  /\ exit_code' = s
  /\ returncode' = s

\* check_call / check_output raise CalledProcessError(returncode = s); main
\* catches nothing, so the exception ends the process
CalledProcessError(s) ==
  /\ pc' = "exit"
  /\ exit_code' = UncaughtExceptionStatus
  /\ returncode' = s

\* a failure handler that rolls back: it returns to the original branch and
\* deletes the working branch
Fails_cleanup(argv) ==
  \E s \in FailStatuses :
    /\ Run(argv)
    /\ CalledProcessError(s)
    /\ IF working_branch \in DOMAIN branches
         THEN /\ branches' = [x \in DOMAIN branches \ {working_branch} |-> branches[x]]
              /\ head' = [ref |-> current_branch, commit |-> 0]
         ELSE UNCHANGED <<branches, head>>
    /\ UNCHANGED <<prompts, env, locals, tags, parents, remote>>

\* the command exits with a non-zero status and changes nothing
Fails(argv) ==
  \E s \in FailStatuses :
    /\ Run(argv)
    /\ CalledProcessError(s)
    /\ UNCHANGED <<prompts, env, locals, repo>>

\* verify(prompt, interactive): click.confirm is shown only when interactive
Shown(prompt, answer) ==
  prompts' = IF interactive THEN Append(prompts, <<prompt, answer>>) ELSE prompts

\* a target check that lets every target through
UnknownTarget_never(publish_to) == FALSE

\* line 48: publish_to not in PUBLISH_MODES
UnknownTarget(publish_to) == publish_to \notin DOMAIN PUBLISH_MODES

\* lines 45-51
CheckPublishTo ==
  /\ pc = "main"
  /\ interactive' = ~args.no_prompt
  /\ time' = Strftime(clock)
  /\ IF UnknownTarget(args.publish_to)
       THEN SysExit(1)
       ELSE pc' = "normalize" /\ UNCHANGED <<exit_code, returncode>>
  /\ UNCHANGED <<log, prompts, env, repo, next_version, current_branch,
                 working_branch, gh_pages_branch, release_tag, version_index,
                 uncommitted_changes, existing_tags>>

\* lines 53-54
Normalize ==
  /\ pc = "normalize"
  /\ next_version' = NormalizeNextVersion(args.next_version)
  /\ pc' = "confirm_release"
  /\ UNCHANGED <<exit_code, returncode, log, prompts, env, repo, interactive,
                 time, current_branch, working_branch, gh_pages_branch,
                 release_tag, version_index, uncommitted_changes,
                 existing_tags>>

\* lines 56-59
ConfirmRelease ==
  /\ pc = "confirm_release"
  /\ \E answer \in BOOLEAN :
       /\ Shown("Publishing version", answer)
       /\ IF ~verify(interactive, answer)
            THEN SysExit(1)
            ELSE pc' = "query_branch" /\ UNCHANGED <<exit_code, returncode>>
  /\ UNCHANGED <<log, env, locals, repo>>

GitRevParse == <<"git", "rev-parse", "--abbrev-ref", "HEAD">>

\* lines 61-64
QueryBranch ==
  /\ pc = "query_branch"
  /\ \/ /\ Run(GitRevParse)
        /\ current_branch' = head.ref
        /\ IF current_branch' = "HEAD"
             THEN SysExit(1)
             ELSE pc' = "confirm_not_master" /\ UNCHANGED <<exit_code, returncode>>
        /\ UNCHANGED <<prompts, env, repo, interactive, time, next_version,
                       working_branch, gh_pages_branch, release_tag, version_index,
                 uncommitted_changes, existing_tags>>
     \/ Fails(GitRevParse)

\* lines 65-68
ConfirmNotMaster ==
  /\ pc = "confirm_not_master"
  /\ IF current_branch # "master"
       THEN \E answer \in BOOLEAN :
              /\ Shown("not on master", answer)
              /\ IF ~verify(interactive, answer)
                   THEN SysExit(1)
                   ELSE pc' = "query_diff" /\ UNCHANGED <<exit_code, returncode>>
       ELSE pc' = "query_diff" /\ UNCHANGED <<exit_code, returncode, prompts>>
  /\ UNCHANGED <<log, env, locals, repo>>

GitDiff == <<"git", "diff", "--stat">>

\* a diff check that never sees a change
HasChanges_never(output) == FALSE

\* line 71: uncommitted_changes != b""
HasChanges(output) == output # ""

\* lines 70-75
QueryDiff ==
  /\ pc = "query_diff"
  /\ \/ \E output \in DiffOutputs :
          /\ Run(GitDiff)
          /\ uncommitted_changes' = output
          /\ IF HasChanges(uncommitted_changes')
               THEN SysExit(1)
               ELSE pc' = "check_tags" /\ UNCHANGED <<exit_code, returncode>>
          /\ UNCHANGED <<prompts, env, repo, interactive, time, next_version,
                         current_branch, working_branch, gh_pages_branch,
                         release_tag, version_index, existing_tags>>
     \/ Fails(GitDiff)

GitTag == <<"git", "tag">>

\* the filter inverted: the target tags that do not exist yet
ConflictTags_absent(target_tags, existing) ==
  { a \in target_tags : a \notin existing }

\* line 84: the target tags that are among the existing ones
ConflictTags(target_tags, existing) ==
  { a \in target_tags : a \in existing }

\* lines 77-91
CheckTags ==
  /\ pc = "check_tags"
  /\ working_branch' = WORKING_BRANCH(args.release_version, time)
  /\ gh_pages_branch' = WORKING_DOCS_BRANCH(args.release_version, time)
  /\ release_tag' = RELEASE_TAG(args.release_version)
  /\ derived' = Append(derived, [at |-> clock,
                                  working_branch |-> working_branch',
                                  gh_pages_branch |-> gh_pages_branch'])
  /\ Run(GitTag)
  /\ \/ /\ existing_tags' = DOMAIN tags
        /\ LET target_tags == {release_tag'}
           IN IF ConflictTags(target_tags, existing_tags') # {}
                THEN SysExit(1)
                ELSE pc' = "create_working_branch"
                     /\ UNCHANGED <<exit_code, returncode>>
     \/ \E s \in FailStatuses :
          /\ CalledProcessError(s)
          /\ UNCHANGED existing_tags
  /\ UNCHANGED <<prompts, args, clock, runs, start_repo, repo, interactive, time, next_version,
                 current_branch, version_index, uncommitted_changes>>

\* ------------------------------------------------------ git and sbt
\* branches with b pointing at commit c (a new branch, or b moved)
WithBranch(b, c) ==
  [x \in DOMAIN branches \cup {b} |-> IF x = b THEN c ELSE branches[x]]
\* a deletion that deletes nothing
WithoutBranch_kept(b) == branches

\* branches without b
WithoutBranch(b) == [x \in DOMAIN branches \ {b} |-> branches[x]]
\* tags with t pointing at commit c
WithTag(t, c) == [x \in DOMAIN tags \cup {t} |-> IF x = t THEN c ELSE tags[x]]
\* the id of the next commit made
NewCommit == Len(parents) + 1

GitCheckoutB(b) == <<"git", "checkout", "-b", b>>

\* lines 93-94: git checkout -b creates the branch at HEAD and moves HEAD to
\* it; it fails when the branch already exists
CreateWorkingBranch ==
  /\ pc = "create_working_branch"
  /\ \/ /\ working_branch \notin DOMAIN branches
        /\ Run(GitCheckoutB(working_branch))
        /\ branches' = WithBranch(working_branch, HeadCommit)
        /\ head' = OnBranch(working_branch)
        /\ pc' = "sbt_release"
        /\ UNCHANGED <<exit_code, returncode, prompts, env, locals, tags,
                       parents, remote>>
     \/ Fails(GitCheckoutB(working_branch))

\* lines 97-98
SbtRelease(rel, next) ==
  <<"./build/sbt",
    "release release-version " \o rel \o " next-version " \o Str(next)>>

\* lines 96-98: sbt release commits the release version on the current branch,
\* tags that commit, then commits the next version.  A failing run may stop
\* before the first commit or after the tag.
ReleaseStep ==
  /\ pc = "sbt_release"
  /\ \/ /\ release_tag \notin DOMAIN tags
        /\ Run(SbtRelease(args.release_version, next_version))
        /\ parents' = parents \o << {HeadCommit}, {NewCommit} >>
        /\ tags' = WithTag(release_tag, NewCommit)
        /\ branches' = WithBranch(head.ref, NewCommit + 1)
        /\ pc' = "checkout_tag"
        /\ UNCHANGED <<exit_code, returncode, prompts, env, locals, head, remote>>
     \/ Fails(SbtRelease(args.release_version, next_version))
     \/ \E s \in FailStatuses :
          /\ release_tag \notin DOMAIN tags
          /\ Run(SbtRelease(args.release_version, next_version))
          /\ parents' = Append(parents, {HeadCommit})
          /\ tags' = WithTag(release_tag, NewCommit)
          /\ branches' = WithBranch(head.ref, NewCommit)
          /\ CalledProcessError(s)
          /\ UNCHANGED <<prompts, env, locals, head, remote>>

GitCheckout(ref) == <<"git", "checkout", ref>>

\* lines 100-101: HEAD detached at the tag's commit
CheckoutTag ==
  /\ pc = "checkout_tag"
  /\ \/ /\ release_tag \in DOMAIN tags
        /\ Run(GitCheckout(release_tag))
        /\ head' = Detached(tags[release_tag])
        /\ version_index' = 1
        /\ pc' = "publish"
        /\ UNCHANGED <<exit_code, returncode, prompts, env, branches, tags,
                       parents, remote, interactive, time, next_version,
                       current_branch, working_branch, gh_pages_branch,
                       release_tag, uncommitted_changes, existing_tags>>
     \/ Fails(GitCheckout(release_tag))

\* a publish that always publishes locally
SbtPublish_local(version, publish_target) ==
  <<"./build/sbt", "-Dspark.version=" \o version, "clean", "publishLocal">>

\* line 105
SbtPublish(version, publish_target) ==
  <<"./build/sbt", "-Dspark.version=" \o version, "clean", publish_target>>

\* a loop that leaves after its first pass
Publish_once ==
  /\ pc = "publish"
  /\ LET publish_target == PUBLISH_MODES[args.publish_to]
         version == args.spark_version[version_index]
     IN \/ /\ Run(SbtPublish(version, publish_target))
           /\ pc' = "checkout_original"
           /\ UNCHANGED <<exit_code, returncode, prompts, env, repo, locals>>
        \/ Fails(SbtPublish(version, publish_target))

\* a loop that goes on to the next version when one fails
Publish_continues ==
  /\ pc = "publish"
  /\ LET publish_target == PUBLISH_MODES[args.publish_to]
         version == args.spark_version[version_index]
     IN /\ Run(SbtPublish(version, publish_target))
        /\ \E s \in {0} \cup FailStatuses : returncode' = s
        /\ IF version_index < Len(args.spark_version)
             THEN version_index' = version_index + 1 /\ pc' = "publish"
             ELSE version_index' = version_index /\ pc' = "checkout_original"
        /\ UNCHANGED <<exit_code, prompts, env, repo, interactive, time,
                       next_version, current_branch, working_branch,
                       gh_pages_branch, release_tag, uncommitted_changes,
                       existing_tags>>

\* lines 103-105: one pass of the loop over spark_version
Publish ==
  /\ pc = "publish"
  /\ LET publish_target == PUBLISH_MODES[args.publish_to]
         version == args.spark_version[version_index]
     IN \/ /\ Run(SbtPublish(version, publish_target))
           /\ IF version_index < Len(args.spark_version)
                THEN version_index' = version_index + 1 /\ pc' = "publish"
                ELSE version_index' = version_index /\ pc' = "checkout_original"
           /\ UNCHANGED <<exit_code, returncode, prompts, env, repo,
                          interactive, time, next_version, current_branch,
                          working_branch, gh_pages_branch, release_tag,
                          uncommitted_changes, existing_tags>>
        \/ Fails(SbtPublish(version, publish_target))

\* a return to master instead of the branch the run started on
CheckoutOriginal_master ==
  /\ pc = "checkout_original"
  /\ Run(GitCheckout("master"))
  /\ head' = OnBranch("master")
  /\ pc' = "merge"
  /\ UNCHANGED <<exit_code, returncode, prompts, env, locals, branches,
                 tags, parents, remote>>

\* lines 107-108
CheckoutOriginal ==
  /\ pc = "checkout_original"
  /\ \/ /\ current_branch \in DOMAIN branches
        /\ Run(GitCheckout(current_branch))
        /\ head' = OnBranch(current_branch)
        /\ pc' = "merge"
        /\ UNCHANGED <<exit_code, returncode, prompts, env, locals, branches,
                       tags, parents, remote>>
     \/ Fails(GitCheckout(current_branch))

GitMerge(b) == <<"git", "merge", "--ff", b>>

\* line 109: git merge --ff moves the current branch to the merged branch's
\* commit when it descends from it, and makes a merge commit otherwise
Merge ==
  /\ pc = "merge"
  /\ \/ /\ working_branch \in DOMAIN branches
        /\ Run(GitMerge(working_branch))
        /\ IF HeadCommit \in Ancestors(branches[working_branch])
             THEN /\ branches' = WithBranch(head.ref, branches[working_branch])
                  /\ UNCHANGED parents
             ELSE /\ parents' = Append(parents, {HeadCommit, branches[working_branch]})
                  /\ branches' = WithBranch(head.ref, NewCommit)
        /\ pc' = "delete_working_branch"
        /\ UNCHANGED <<exit_code, returncode, prompts, env, locals, tags, head,
                       remote>>
     \/ Fails(GitMerge(working_branch))

GitBranchDelete(flag, b) == <<"git", "branch", flag, b>>

\* line 110: git branch -d deletes a branch that is merged into HEAD
DeleteWorkingBranch ==
  /\ pc = "delete_working_branch"
  /\ \/ /\ working_branch \in DOMAIN branches
        /\ branches[working_branch] \in Ancestors(HeadCommit)
        /\ Run(GitBranchDelete("-d", working_branch))
        /\ branches' = WithoutBranch(working_branch)
        /\ pc' = "confirm_push"
        /\ UNCHANGED <<exit_code, returncode, prompts, env, locals, tags, head,
                       parents, remote>>
     \/ Fails(GitBranchDelete("-d", working_branch))

\* ------------------------------------------------------ push and docs
GitPush(r, ref) == <<"git", "push", r, ref>>

\* line 113
ConfirmPush ==
  /\ pc = "confirm_push"
  /\ \E answer \in BOOLEAN :
       /\ Shown("push local branch & version tag", answer)
       /\ IF verify(interactive, answer)
            THEN pc' = "push_branch"
            ELSE pc' = "confirm_docs"
  /\ UNCHANGED <<exit_code, returncode, log, env, locals, repo>>

\* line 115
PushBranch ==
  /\ pc = "push_branch"
  /\ \/ /\ Run(GitPush(args.git_remote, current_branch))
        /\ remote' = remote \cup {current_branch}
        /\ pc' = "push_tag"
        /\ UNCHANGED <<exit_code, returncode, prompts, env, locals, branches,
                       tags, head, parents>>
     \/ Fails(GitPush(args.git_remote, current_branch))

\* line 116
PushTag ==
  /\ pc = "push_tag"
  /\ \/ /\ Run(GitPush(args.git_remote, release_tag))
        /\ remote' = remote \cup {release_tag}
        /\ pc' = "confirm_docs"
        /\ UNCHANGED <<exit_code, returncode, prompts, env, locals, branches,
                       tags, head, parents>>
     \/ Fails(GitPush(args.git_remote, release_tag))

\* lines 118-122: the prompt is shown only when publish_docs is set
ConfirmDocs ==
  /\ pc = "confirm_docs"
  /\ IF args.publish_docs
       THEN \E answer \in BOOLEAN :
              /\ Shown("build release docs", answer)
              /\ IF ~verify(interactive, answer)
                   THEN SysExit(0)
                   ELSE pc' = "create_docs_branch"
                        /\ UNCHANGED <<exit_code, returncode>>
       ELSE SysExit(0) /\ UNCHANGED prompts
  /\ UNCHANGED <<log, env, locals, repo>>

GitCheckoutBAt(b, start) == <<"git", "checkout", "-b", b, start>>

\* a docs branch started at HEAD (the start point left out)
CreateDocsBranch_fromHead ==
  /\ pc = "create_docs_branch"
  /\ gh_pages_branch \notin DOMAIN branches
  /\ Run(GitCheckoutBAt(gh_pages_branch, release_tag))
  /\ branches' = WithBranch(gh_pages_branch, HeadCommit)
  /\ head' = OnBranch(gh_pages_branch)
  /\ pc' = "build_docs"
  /\ UNCHANGED <<exit_code, returncode, prompts, env, locals, tags,
                 parents, remote>>

\* line 124: the docs branch starts at the release tag
CreateDocsBranch ==
  /\ pc = "create_docs_branch"
  /\ \/ /\ gh_pages_branch \notin DOMAIN branches
        /\ release_tag \in DOMAIN tags
        /\ Run(GitCheckoutBAt(gh_pages_branch, release_tag))
        /\ branches' = WithBranch(gh_pages_branch, tags[release_tag])
        /\ head' = OnBranch(gh_pages_branch)
        /\ pc' = "build_docs"
        /\ UNCHANGED <<exit_code, returncode, prompts, env, locals, tags,
                       parents, remote>>
     \/ Fails(GitCheckoutBAt(gh_pages_branch, release_tag))

BuildDocsCmd == <<"./dev/build-docs.sh">>

\* line 125
BuildDocs ==
  /\ pc = "build_docs"
  /\ \/ /\ Run(BuildDocsCmd)
        /\ pc' = "add_docs"
        /\ UNCHANGED <<exit_code, returncode, prompts, env, locals, repo>>
     \/ Fails(BuildDocsCmd)

GitAdd == <<"git", "add", "-f", "docs/_site">>

\* line 128
AddDocs ==
  /\ pc = "add_docs"
  /\ \/ /\ Run(GitAdd)
        /\ pc' = "commit_docs"
        /\ UNCHANGED <<exit_code, returncode, prompts, env, locals, repo>>
     \/ Fails(GitAdd)

\* lines 127, 129
GitCommit(rel) ==
  <<"git", "commit", "-m", "Build docs for release " \o rel \o ".">>

\* line 129: a new commit on the current branch
CommitDocs ==
  /\ pc = "commit_docs"
  /\ \/ /\ Run(GitCommit(args.release_version))
        /\ parents' = Append(parents, {HeadCommit})
        /\ branches' = WithBranch(head.ref, NewCommit)
        /\ pc' = "confirm_docs_push"
        /\ UNCHANGED <<exit_code, returncode, prompts, env, locals, tags, head,
                       remote>>
     \/ Fails(GitCommit(args.release_version))

\* lines 130-132
ConfirmDocsPush ==
  /\ pc = "confirm_docs_push"
  /\ \E answer \in BOOLEAN :
       /\ Shown("push docs branch", answer)
       /\ IF verify(interactive, answer)
            THEN pc' = "push_docs"
            ELSE pc' = "checkout_back"
  /\ UNCHANGED <<exit_code, returncode, log, env, locals, repo>>

\* line 133
PushDocs ==
  /\ pc = "push_docs"
  /\ \/ /\ Run(GitPush(args.git_remote, gh_pages_branch))
        /\ remote' = remote \cup {gh_pages_branch}
        /\ pc' = "push_gh_pages"
        /\ UNCHANGED <<exit_code, returncode, prompts, env, locals, branches,
                       tags, head, parents>>
     \/ Fails(GitPush(args.git_remote, gh_pages_branch))

GitPushForce(r, refspec) == <<"git", "push", "-f", r, refspec>>

\* line 134
PushGhPages ==
  /\ pc = "push_gh_pages"
  /\ LET refspec == gh_pages_branch \o ":gh-pages"
     IN \/ /\ Run(GitPushForce(args.git_remote, refspec))
           /\ remote' = remote \cup {"gh-pages"}
           /\ pc' = "checkout_back"
           /\ UNCHANGED <<exit_code, returncode, prompts, env, locals,
                          branches, tags, head, parents>>
        \/ Fails(GitPushForce(args.git_remote, refspec))

\* line 136
CheckoutBack ==
  /\ pc = "checkout_back"
  /\ \/ /\ current_branch \in DOMAIN branches
        /\ Run(GitCheckout(current_branch))
        /\ head' = OnBranch(current_branch)
        /\ pc' = "delete_docs_branch"
        /\ UNCHANGED <<exit_code, returncode, prompts, env, locals, branches,
                       tags, parents, remote>>
     \/ Fails(GitCheckout(current_branch))

\* line 137, then main returns and click exits with status 0
DeleteDocsBranch ==
  /\ pc = "delete_docs_branch"
  /\ \/ /\ gh_pages_branch \in DOMAIN branches
        /\ head.ref # gh_pages_branch
        /\ Run(GitBranchDelete("-D", gh_pages_branch))
        /\ branches' = WithoutBranch(gh_pages_branch)
        /\ SysExit(0)
        /\ UNCHANGED <<prompts, env, locals, tags, head, parents, remote>>
     \/ Fails(GitBranchDelete("-D", gh_pages_branch))

\* ------------------------------------------------------ invocations
\* The operator runs the same command line again, later, on the repository
\* as the previous invocation left it.
Rerun ==
  /\ pc = "exit"
  /\ runs < MaxRuns
  /\ runs' = runs + 1
  /\ \E elapsed \in 1..MaxElapsed : clock' = clock + elapsed
  /\ UNCHANGED derived
  /\ pc' = "main"
  /\ exit_code' = -1
  /\ returncode' = 0
  /\ log' = <<>>
  /\ prompts' = <<>>
  /\ interactive' = FALSE /\ time' = "" /\ next_version' = <<>>
  /\ current_branch' = "" /\ working_branch' = "" /\ gh_pages_branch' = ""
  /\ release_tag' = "" /\ version_index' = 0
  /\ uncommitted_changes' = "" /\ existing_tags' = {}
  /\ start_repo' = Snapshot
  /\ UNCHANGED <<args, repo>>

Next ==
  \/ CheckPublishTo \/ Normalize \/ ConfirmRelease \/ QueryBranch
  \/ ConfirmNotMaster \/ QueryDiff \/ CheckTags \/ CreateWorkingBranch
  \/ ReleaseStep \/ CheckoutTag \/ Publish \/ CheckoutOriginal \/ Merge
  \/ DeleteWorkingBranch \/ ConfirmPush \/ PushBranch \/ PushTag
  \/ ConfirmDocs \/ CreateDocsBranch \/ BuildDocs \/ AddDocs \/ CommitDocs
  \/ ConfirmDocsPush \/ PushDocs \/ PushGhPages \/ CheckoutBack
  \/ DeleteDocsBranch \/ Rerun

Spec == Init /\ [][Next]_vars

\* ------------------------------------------------------ reading the log
InLog(argv) == \E i \in DOMAIN log : log[i] = argv
IsPush(argv) == Len(argv) >= 2 /\ argv[1] = "git" /\ argv[2] = "push"
IsCheckoutB(argv) ==
  Len(argv) >= 3 /\ argv[1] = "git" /\ argv[2] = "checkout" /\ argv[3] = "-b"
IsSbt(argv) == argv[1] = "./build/sbt"
Pushes == { i \in DOMAIN log : IsPush(log[i]) }
\* every command of the log but a last one that failed
Succeeded ==
  IF returncode # 0 THEN SubSeq(log, 1, Len(log) - 1) ELSE log
Done(argv) == \E i \in DOMAIN Succeeded : Succeeded[i] = argv
BranchNames == DOMAIN branches
TagNames == DOMAIN tags
Accepted == \A i \in DOMAIN prompts : prompts[i][2]
Declined(prompt) == \E i \in DOMAIN prompts : prompts[i] = <<prompt, FALSE>>

\* ------------------------------------------------------ C1
\* C1 as stated: in a run with no_prompt set none of the four push commands
\* is ever executed.
C1_NoPushWhenNoPrompt == args.no_prompt => Pushes = {}

\* C1 amended: with no_prompt set no prompt is shown and every confirmation
\* counts as accepted, so a run that ends with status 0 has pushed the
\* original branch and the release tag, and with publish_docs also the docs
\* branch and its force-push onto gh-pages.
C1_NoPromptPushes ==
  args.no_prompt =>
    /\ prompts = <<>>
    /\ (pc = "exit" /\ exit_code = 0) =>
         /\ InLog(GitPush(args.git_remote, current_branch))
         /\ InLog(GitPush(args.git_remote, release_tag))
         /\ args.publish_docs =>
              /\ InLog(GitPush(args.git_remote, gh_pages_branch))
              /\ InLog(GitPushForce(args.git_remote, gh_pages_branch \o ":gh-pages"))

C1_Witness ==
  /\ args.no_prompt /\ args.publish_docs
  /\ pc = "exit" /\ exit_code = 0
  /\ Cardinality(Pushes) = 4

\* ------------------------------------------------------ C2
\* C2: with publish_to outside PUBLISH_MODES main exits with status 1 before
\* anything else: no prompt, no command, and the repository as at the start.
C2_UnknownTargetExits ==
  args.publish_to \notin DOMAIN PUBLISH_MODES =>
    /\ pc \in {"main", "exit"}
    /\ pc = "exit" => exit_code = 1
    /\ prompts = <<>>
    /\ log = <<>>
    /\ Snapshot = start_repo

C2_Witness ==
  /\ args.publish_to = "maven-central"
  /\ pc = "exit" /\ exit_code = 1

\* ------------------------------------------------------ C3
\* C3: when git diff --stat prints something main exits with status 1; no
\* branch is created, sbt is never run, and the branches and tags are those
\* of the start.
C3_DirtyTreeExits ==
  uncommitted_changes # "" =>
    /\ pc = "exit" /\ exit_code = 1
    /\ \A i \in DOMAIN log : ~IsCheckoutB(log[i]) /\ ~IsSbt(log[i])
    /\ log[Len(log)] = GitDiff
    /\ BranchNames = DOMAIN start_repo.branches
    /\ TagNames = DOMAIN start_repo.tags

C3_Witness ==
  /\ uncommitted_changes # ""
  /\ pc = "exit"
  /\ InLog(GitDiff)

\* ------------------------------------------------------ C4
\* C4: when the release tag is among the tags git tag lists, main exits with
\* status 1 before the working branch is created or sbt is run, and the tag
\* stays on the commit it was on.
C4_TagConflictExits ==
  (InLog(GitTag) /\ release_tag \in existing_tags) =>
    /\ pc = "exit" /\ exit_code = 1
    /\ release_tag = RELEASE_TAG(args.release_version)
    /\ \A i \in DOMAIN log : ~IsCheckoutB(log[i]) /\ ~IsSbt(log[i])
    /\ BranchNames = DOMAIN start_repo.branches
    /\ tags = start_repo.tags

C4_Witness ==
  /\ release_tag \in existing_tags
  /\ pc = "exit"
  /\ log[Len(log)] = GitTag

\* ------------------------------------------------------ C5
\* C5 as stated, the marker being "-SNAPSHOT": an input that does not end in
\* the marker gets it appended once, an input that ends in it is unchanged,
\* normalizing again changes nothing, and the value passed to sbt release
\* ends in "-SNAPSHOT".
C5_NormalizedEndsInMarker ==
  next_version # <<>> =>
    /\ next_version = IF EndsWith(args.next_version, DashSNAPSHOT)
                        THEN args.next_version
                        ELSE args.next_version \o DashSNAPSHOT
    /\ NormalizeNextVersion(next_version) = next_version
    /\ EndsWith(next_version, DashSNAPSHOT)
    /\ \A i \in DOMAIN log :
         (IsSbt(log[i]) /\ Len(log[i]) = 2) =>
           log[i] = SbtRelease(args.release_version, next_version)

\* ------------------------------------------------------ C6
Last(seq) == seq[Len(seq)]
\* the run started on a named branch, with a known publish target and without
\* the release tag; the tree was clean, every prompt shown was accepted and
\* no command failed
GoodRun ==
  /\ args.publish_to \in DOMAIN PUBLISH_MODES
  /\ start_repo.head.ref # "HEAD"
  /\ RELEASE_TAG(args.release_version) \notin DOMAIN start_repo.tags
  /\ uncommitted_changes = ""
  /\ Accepted
  /\ returncode = 0

\* C6: a good run ends with status 0, the release tag in place, the original
\* branch moved to the working branch's commit (past the tagged one), the
\* working branch gone and HEAD on the original branch.
C6_SuccessfulRun ==
  (pc = "exit" /\ GoodRun) =>
    /\ exit_code = 0
    /\ release_tag = RELEASE_TAG(args.release_version)
    /\ release_tag \in TagNames
    /\ current_branch = start_repo.head.ref
    /\ Done(GitMerge(working_branch))
    /\ tags[release_tag] \in Ancestors(branches[current_branch]) \ {branches[current_branch]}
    /\ start_repo.branches[current_branch] \in Ancestors(tags[release_tag])
    /\ working_branch \notin BranchNames
    /\ head = OnBranch(current_branch)

C6_Witness ==
  /\ pc = "exit" /\ GoodRun /\ exit_code = 0
  /\ start_repo.head.ref = "dev"
  /\ Done(GitBranchDelete("-D", gh_pages_branch))

\* ------------------------------------------------------ C7
IsSbtPublish(argv) == Len(argv) = 4 /\ argv[1] = "./build/sbt" /\ argv[3] = "clean"
PublishRuns == { i \in DOMAIN log : IsSbtPublish(log[i]) }
PublishFailed == returncode # 0 /\ log # <<>> /\ IsSbtPublish(Last(log))

\* C7: when the publish for the i-th spark version fails the run is over:
\* the publishes run are those of versions 1..i, in order, and the original
\* branch is not checked out or merged, the working branch is not deleted,
\* and nothing is pushed and no docs step is run.
C7_FailedPublishHalts ==
  PublishFailed =>
    /\ pc = "exit" /\ exit_code # 0
    /\ Cardinality(PublishRuns) = version_index
    /\ \A k \in 1..version_index :
         log[Len(log) - version_index + k] =
           SbtPublish(args.spark_version[k], PUBLISH_MODES[args.publish_to])
    /\ ~InLog(GitCheckout(current_branch))
    /\ ~InLog(GitMerge(working_branch))
    /\ ~InLog(GitBranchDelete("-d", working_branch))
    /\ Pushes = {}
    /\ \A i \in DOMAIN log :
         log[i] \notin {GitCheckoutBAt(gh_pages_branch, release_tag), BuildDocsCmd,
                        GitAdd, GitCommit(args.release_version)}
    /\ working_branch \in BranchNames
    /\ branches[current_branch] = start_repo.branches[current_branch]

C7_Witness ==
  /\ PublishFailed
  /\ Len(args.spark_version) = 2
  /\ version_index = 1

\* ------------------------------------------------------ C8
\* declining the release confirmation or the not-on-master confirmation ends
\* the run with status 1 before any branch is created
C8_DeclineMandatory ==
  (Declined("Publishing version") \/ Declined("not on master")) =>
    /\ pc = "exit" /\ exit_code = 1
    /\ \A i \in DOMAIN log : ~IsCheckoutB(log[i])
    /\ branches = start_repo.branches

\* declining the push confirmation does not end the run: it goes on to the
\* docs step, which ends it only as a docs skip
C8_DeclinePush ==
  (prompts # <<>> /\ Last(prompts) = <<"push local branch & version tag", FALSE>>) =>
    /\ Pushes = {}
    /\ \/ pc = "confirm_docs"
       \/ pc = "exit" /\ exit_code = 0 /\ ~args.publish_docs

\* the run ended at the docs step: publish_docs false or the docs
\* confirmation declined
DocsSkipped ==
  /\ pc = "exit" /\ returncode = 0
  /\ Done(GitBranchDelete("-d", working_branch))
  /\ ~args.publish_docs \/ Declined("build release docs")

\* a docs skip ends with status 0 after the merge, with no docs branch and no
\* docs push
C8_DocsSkip ==
  DocsSkipped =>
    /\ exit_code = 0
    /\ Done(GitMerge(working_branch))
    /\ tags[release_tag] \in Ancestors(branches[current_branch])
    /\ gh_pages_branch \notin BranchNames
    /\ \A i \in DOMAIN log : ~IsCheckoutB(log[i]) \/ log[i] = GitCheckoutB(working_branch)
    /\ ~InLog(GitPush(args.git_remote, gh_pages_branch))
    /\ ~InLog(GitPushForce(args.git_remote, gh_pages_branch \o ":gh-pages"))

\* every core release step is done: the working branch was merged and deleted
CoreDone == Done(GitBranchDelete("-d", working_branch))

\* a run that completed every core release step never returns status 1
C8_CoreDoneNeverOne == (CoreDone /\ pc = "exit") => exit_code # 1

\* a run that completed every core release step returns status 1 only when a
\* command after them (a push or a docs step) failed
C8_CoreDoneOneOnFailure ==
  (CoreDone /\ pc = "exit" /\ exit_code = 1) =>
    /\ returncode # 0
    /\ \E i \in DOMAIN log :
         /\ log[i] = GitBranchDelete("-d", working_branch)
         /\ i < Len(log)

\* C8 as stated: the exit codes of the confirmations, and status 1 never
\* returned once the core release steps are done.
C8_ExitCodes ==
  C8_DeclineMandatory /\ C8_DeclinePush /\ C8_DocsSkip /\ C8_CoreDoneNeverOne

\* C8 amended: the same, but once the core release steps are done status 1 is
\* returned only when a later push or docs command fails.
C8_ExitCodesAmended ==
  C8_DeclineMandatory /\ C8_DeclinePush /\ C8_DocsSkip /\ C8_CoreDoneOneOnFailure

C8_Witness ==
  /\ CoreDone /\ pc = "exit" /\ exit_code = 1
  /\ Declined("push local branch & version tag")
  /\ Last(log) = BuildDocsCmd

\* ------------------------------------------------------ C9
\* C9 as stated: a command that ends with status s # 0 ends the process at
\* once with exit status s.
C9_StatusPropagates ==
  returncode # 0 => (pc = "exit" /\ exit_code = returncode)

\* C9 amended: a command that ends with status s # 0 ends the process at once
\* with exit status 1 whatever s is; after it this invocation runs no command
\* (no retry, no undo) and leaves the repository as the failure left it.
C9_FailureIsFinal ==
  /\ [](returncode # 0 => (pc = "exit" /\ exit_code = 1 /\ log # <<>>))
  /\ [][returncode # 0 => (runs' # runs \/ (log' = log /\ repo' = repo))]_vars

C9_Witness ==
  /\ returncode = 2 /\ pc = "exit" /\ exit_code = 1
  /\ Last(log) = GitCheckout(release_tag)

\* ------------------------------------------------------ C10
\* a command failed after the working branch was created and before the
\* merge command was reached
HalfDone ==
  /\ returncode # 0
  /\ Done(GitCheckoutB(working_branch))
  /\ ~InLog(GitMerge(working_branch))

\* the failed run is left as it was: the working branch and, once sbt release
\* completed, the release tag exist, the original branch has not moved, and
\* HEAD is on the working branch or detached at the release tag
C10_NoCleanup ==
  HalfDone =>
    /\ pc = "exit"
    /\ working_branch \in BranchNames
    /\ Done(SbtRelease(args.release_version, next_version)) =>
         release_tag \in TagNames
    /\ branches[current_branch] = start_repo.branches[current_branch]
    /\ \/ head = OnBranch(working_branch)
       \/ release_tag \in TagNames /\ head = Detached(tags[release_tag])
    /\ Done(GitCheckout(release_tag)) <=> head.ref = "HEAD"

\* an invocation for a release whose tag an earlier, half-completed
\* invocation created: the tag and a leftover working branch exist at start
RetryAfterTag ==
  /\ runs > 1
  /\ RELEASE_TAG(args.release_version) \in DOMAIN start_repo.tags
  /\ DOMAIN start_repo.branches # InitialBranches

\* the retry was not stopped by a declined prompt, a dirty tree or a failing
\* command
RetryUnhindered ==
  pc = "exit" /\ returncode = 0 /\ Accepted /\ uncommitted_changes = ""

\* the tag-conflict check ended the run
RejectedByTagCheck ==
  /\ exit_code = 1
  /\ log # <<>> /\ Last(log) = GitTag
  /\ release_tag \in existing_tags

\* C10 as stated: no cleanup after a failure between the creation of the
\* working branch and the merge, and a retry for the same release after the
\* tag was created is rejected by the tag-conflict check.
C10_RetryRejectedByTagCheck ==
  /\ C10_NoCleanup
  /\ (RetryAfterTag /\ RetryUnhindered) => RejectedByTagCheck

\* C10 amended: no cleanup, as stated; a retry for the same release after the
\* tag was created ends with status 1 without creating a branch or a tag, by
\* the detached-HEAD check when the failure left HEAD detached at the release
\* tag, and by the tag-conflict check otherwise.
C10_RetryRejected ==
  /\ C10_NoCleanup
  /\ RetryAfterTag =>
       /\ pc \in {"main", "normalize", "confirm_release", "query_branch",
                  "confirm_not_master", "query_diff", "check_tags", "exit"}
       /\ pc = "exit" => exit_code = 1
       /\ branches = start_repo.branches /\ tags = start_repo.tags
       /\ RetryUnhindered =>
            IF start_repo.head.ref = "HEAD"
              THEN Last(log) = GitRevParse
              ELSE RejectedByTagCheck

C10_Witness ==
  /\ RetryAfterTag /\ RetryUnhindered
  /\ start_repo.head = Detached(start_repo.tags[RELEASE_TAG(args.release_version)])
  /\ Last(log) = GitRevParse

\* ------------------------------------------------------ C11
\* a ran before b in this invocation
Before(a, b) == \E i, j \in DOMAIN log : i < j /\ log[i] = a /\ log[j] = b
DocsBranchMade == Done(GitCheckoutBAt(gh_pages_branch, release_tag))
DocsPush == GitPush(args.git_remote, gh_pages_branch)
DocsForcePush == GitPushForce(args.git_remote, gh_pages_branch \o ":gh-pages")

Mentions(x) == \E i \in DOMAIN log : \E k \in DOMAIN log[i] : log[i][k] = x

\* HEAD detached at start: the run gets no further than the branch query and
\* ends with status 1
C12_Detached ==
  start_repo.head.ref = "HEAD" =>
    /\ pc \in {"main", "normalize", "confirm_release", "query_branch", "exit"}
    /\ pc = "exit" => exit_code = 1
    /\ \A i \in DOMAIN prompts : prompts[i][1] = "Publishing version"
    /\ ~InLog(GitDiff) /\ ~InLog(GitTag)
    /\ branches = start_repo.branches /\ tags = start_repo.tags

\* started on a named branch other than master: the run goes past the
\* confirmation only when it is accepted or suppressed, and its checkouts of
\* a starting branch, its merge and its branch push are for that branch;
\* master is not named in any command, not moved and not pushed
C12_NotMaster ==
  start_repo.head.ref \notin {"HEAD", "master"} =>
    /\ current_branch \in {"", start_repo.head.ref}
    /\ Declined("not on master") => (pc = "exit" /\ exit_code = 1 /\ ~InLog(GitDiff))
    /\ InLog(GitDiff) =>
         \/ ~interactive /\ prompts = <<>>
         \/ \E i \in DOMAIN prompts : prompts[i] = <<"not on master", TRUE>>
    /\ ~Mentions("master")
    /\ \A b \in DOMAIN start_repo.branches :
         (InLog(GitCheckout(b)) \/ InLog(GitPush(args.git_remote, b))) =>
           b = current_branch
    /\ "master" \in DOMAIN branches /\ branches["master"] = start_repo.branches["master"]
    /\ Done(GitMerge(working_branch)) =>
         /\ Before(GitCheckout(current_branch), GitMerge(working_branch))
         /\ branches[current_branch] # start_repo.branches[current_branch]
    /\ "master" \in remote => "master" \in start_repo.remote

\* C12: a detached HEAD at start ends the run with status 1 before the
\* not-on-master confirmation, the diff and tag queries and any branch or
\* tag; on a named branch other than master the run continues only past an
\* accepted or suppressed confirmation, and every later checkout back, merge
\* and branch push is for that branch, never master.
C12_BranchPrecondition == C12_Detached /\ C12_NotMaster

C12_Witness ==
  /\ start_repo.head.ref = "dev"
  /\ interactive
  /\ Done(GitPush(args.git_remote, "dev"))
  /\ Done(GitMerge(working_branch))

\* ------------------------------------------------------ C13
FirstPublish == CHOOSE i \in PublishRuns : \A j \in PublishRuns : i <= j

\* C13: the clean+publish commands of a run are those of the entries of
\* spark_version, in order and once each (all of them once the run is past
\* the loop), each with the publish action of publish_to; they follow the sbt
\* release step and the checkout of the tag directly, HEAD is detached at the
\* release tag while they run, and the checkout of the original branch comes
\* after the last of them.
C13_BuildPhase ==
  /\ pc = "publish" =>
       /\ release_tag \in TagNames
       /\ head = Detached(tags[release_tag])
       /\ Cardinality(PublishRuns) = version_index - 1
       /\ Last(log) \in {GitCheckout(release_tag)} \cup { log[i] : i \in PublishRuns }
  /\ PublishRuns # {} =>
       LET f == FirstPublish
           n == Cardinality(PublishRuns)
       IN /\ PublishRuns = f..(f + n - 1)
          /\ n <= Len(args.spark_version)
          /\ \A k \in 1..n :
               log[f + k - 1] =
                 <<"./build/sbt", "-Dspark.version=" \o args.spark_version[k],
                   "clean", PUBLISH_MODES[args.publish_to]>>
          /\ f >= 3
          /\ log[f - 1] = GitCheckout(release_tag)
          /\ log[f - 2] = SbtRelease(args.release_version, next_version)
          /\ release_tag \in TagNames
          /\ Len(log) = f + n - 1 => head = Detached(tags[release_tag])
          /\ (Len(log) >= f + n \/ pc = "checkout_original") =>
               n = Len(args.spark_version)
          /\ Len(log) >= f + n => log[f + n] = GitCheckout(current_branch)
          /\ n < Len(args.spark_version) => (pc = "publish" \/ PublishFailed)

C13_Witness ==
  /\ pc = "checkout_original"
  /\ Len(args.spark_version) = 2
  /\ args.publish_to = "m2"
  /\ Cardinality(PublishRuns) = 2

\* ------------------------------------------------------ C14
\* C14: a push is run only after the clean+publish of every entry of
\* spark_version, the merge and the deletion of the working branch have run
\* and succeeded; the push of the tag directly follows a push of the
\* original branch that succeeded; the docs pushes are pushes like the
\* others, so they too come after those steps.
C14_PushAfterRelease ==
  \A i \in Pushes :
    /\ \A k \in 1..Len(args.spark_version) :
         \E j \in 1..(i - 1) :
           log[j] = <<"./build/sbt", "-Dspark.version=" \o args.spark_version[k],
                      "clean", PUBLISH_MODES[args.publish_to]>>
    /\ \E j \in 1..(i - 1), d \in 1..(i - 1) :
         /\ j < d
         /\ log[j] = GitMerge(working_branch)
         /\ log[d] = GitBranchDelete("-d", working_branch)
    /\ working_branch \notin BranchNames
    /\ tags[release_tag] \in Ancestors(branches[current_branch])
    /\ log[i] = GitPush(args.git_remote, release_tag) =>
         /\ log[i - 1] = GitPush(args.git_remote, current_branch)
         /\ current_branch \in remote
    /\ log[i] \in {DocsPush, DocsForcePush} => i > 1 + Len(args.spark_version)

C14_Witness ==
  /\ Done(GitPush(args.git_remote, release_tag))
  /\ Len(args.spark_version) = 2
  /\ InLog(DocsPush)

\* ------------------------------------------------------ C15
\* the second in which an invocation that started at clock t started
Second(t) == t \div TicksPerSecond

\* both names come from the one timestamp taken at the start, and differ
C15_OneTimestamp ==
  working_branch # "" =>
    /\ time = Strftime(clock)
    /\ working_branch = WORKING_BRANCH(args.release_version, time)
    /\ gh_pages_branch = WORKING_DOCS_BRANCH(args.release_version, time)
    /\ working_branch # gh_pages_branch
    /\ Last(derived) = [at |-> clock, working_branch |-> working_branch,
                        gh_pages_branch |-> gh_pages_branch]

\* C15 as stated: for the same release version, invocations started at
\* different times derive different working-branch and docs-branch names;
\* both names come from the one timestamp taken at the start, and differ.
C15_UniqueNames ==
  /\ C15_OneTimestamp
  /\ \A i, j \in DOMAIN derived :
       derived[i].at # derived[j].at =>
         /\ derived[i].working_branch # derived[j].working_branch
         /\ derived[i].gh_pages_branch # derived[j].gh_pages_branch

\* C15 amended: the names differ when the invocations started in different
\* seconds, and are the same when they started within the same second.
C15_UniquePerSecond ==
  /\ C15_OneTimestamp
  /\ \A i, j \in DOMAIN derived :
       IF Second(derived[i].at) # Second(derived[j].at)
         THEN /\ derived[i].working_branch # derived[j].working_branch
              /\ derived[i].gh_pages_branch # derived[j].gh_pages_branch
         ELSE /\ derived[i].working_branch = derived[j].working_branch
              /\ derived[i].gh_pages_branch = derived[j].gh_pages_branch

C15_Witness ==
  /\ Len(derived) = 2
  /\ Second(derived[1].at) # Second(derived[2].at)
  /\ derived[1].working_branch \in DOMAIN start_repo.branches
  /\ Done(GitCheckoutB(working_branch))

====
